---- MODULE Spec2Model ----
(***************************************************************************)
(* Reading Session Lifecycle & Statistics Synchronization of Booker.       *)
(*                                                                         *)
(* The store holds ReadingSession documents (sessions) and the per-user    *)
(* aggregate of the User document (users).  Each request handler is a      *)
(* process that advances one store call (one await) at a time, so that     *)
(* handlers of concurrent requests interleave exactly at their awaits.     *)
(***************************************************************************)
EXTENDS Integers, Sequences, FiniteSets, TLC

\* ---------------------------------------------------------------- bounds
\* Number of requests issued in one behaviour, one after another (Spec).
MaxRequests == 3
\* Number of requests issued in one behaviour on a single book (LongSpec).
MaxLongRequests == 4
\* Number of requests issued in one behaviour of interleaved handlers (ConcSpec).
MaxConcRequests == 3
\* Number of requests issued in one behaviour that draws every page (PageSpec).
MaxPageRequests == 2
\* pageCount of book b1.
KnownPageCount == 21
\* pageCount of book b3.
SmallPageCount == 7
\* Last calendar day of a behaviour; the first is day 0.
MaxDay == 3
\* Number of requests issued in one behaviour of the streak specifications.
MaxStreakRequests == 4
\* Number of requests issued in one behaviour of interleaved Start and
\* Complete handlers (LifecycleConcSpec).
MaxLifecycleRequests == 3
\* Number of requests issued in one behaviour of Start, Complete and reads
\* (ReadSpec).
MaxReadRequests == 4
\* Number of requests issued in one behaviour of interleaved streak updates
\* (StreakConcSpec).
MaxStreakConcRequests == 3

\* Number of requests issued in one behaviour of Start, Complete and the
\* reading goals (GoalSpec).
MaxGoalRequests == 6

\* Number of requests issued in one behaviour of updates with and without a
\* note (SpeedSpec).
MaxSpeedRequests == 3

\* Number of requests issued in one behaviour of Start, Complete and bookmark
\* calls (BookmarkSpec).
MaxBookmarkRequests == 5

\* Number of requests issued in one behaviour of interleaved Start,
\* UpdateProgress and Complete handlers (RaceSpec).
MaxRaceRequests == 3
\* Requests issued in a behaviour of OwnerSpec (two clients).
MaxOwnerRequests == 3
\* Requests issued in a behaviour of ShelfSpec.
MaxShelfRequests == 4

\* ------------------------------------------------------------- constants
CompletionThresholdLate == 95 + 1

\* readingController.js: "95% threshold for completion".
CompletionThreshold == 95

\* A value that is absent (JavaScript undefined / a field that is not set).
Absent == 0 - 1

Users == {"u1", "u2"}
Books == {"b1", "b2", "b3"}
Procs == {1, 2}

\* Book.pageCount: b1 and b3 have a pageCount, b2 has none (the field is optional).
pageCount(b) ==
  CASE b = "b1" -> KnownPageCount
    [] b = "b3" -> SmallPageCount
    [] OTHER -> Absent

\* Request inputs.  InputValidator admits non-negative integers only.
StartPages == {0, 2, KnownPageCount + 1}
PageInputs == {0, KnownPageCount \div 2, KnownPageCount - 1, KnownPageCount + 1}
AllPages == 0..(KnownPageCount + 1)
DeltaInputs == {2, KnownPageCount}
TimeInputs == {0, 1}
ProgressInputs == {50, 100}
ShelfTypes == {"currentlyReading", "wantToRead", "finished"}
Methods == {"pause", "resume", "complete", "abandon", "updateProgress"}
\* readingGoals: the defaults of the schema, and the values a client sets.
DefaultBooksPerYear == 12
DefaultPagesPerDay == 20
GoalInputs == {1, 2}
\* Pages a bookmark is set on (the schema admits every page >= 0).
BookmarkPages == {0, 2}
BookmarkMethods == {"addBookmark", "removeBookmark"}
\* The page of an added note: absent, or a page number.
NotePages == {Absent, 2}

VARIABLES
  sessions,   \* Seq of ReadingSession documents; the index is the session id
  users,      \* user id -> the aggregate fields of the User document
  procs,      \* request slot -> the handler's position, arguments, locals, response
  nreq,       \* number of requests issued so far (the clock of new Date())
  today       \* the calendar day of new Date(), as a day number

vars == <<sessions, users, procs, nreq, today>>

\* ------------------------------------------------------------ JavaScript
Max(a, b) == IF a >= b THEN a ELSE b
Min(a, b) == IF a <= b THEN a ELSE b

RoundPercentDown(num, den) == (100 * num) \div den

\* Math.round(num / den * 100) for num >= 0, den > 0: round half up.
RoundPercent(num, den) == (200 * num + den) \div (2 * den)

\* --------------------------------------------------------------- records
NoDoc == [user |-> "none", book |-> "none", status |-> "none", startPage |-> 0,
          currentPage |-> 0, progress |-> 0, pagesRead |-> 0, totalReadingTime |-> 0,
          readingSpeed |-> 0, bookmarks |-> <<>>, notes |-> <<>>]

\* new ReadingSession({user, book, startPage, currentPage, status: 'active'})
\* with the schema's defaults for the remaining fields.
NewSession(u, b, sp, cp, pr, prd) ==
  [user |-> u, book |-> b, status |-> "active", startPage |-> sp,
   currentPage |-> cp, progress |-> pr, pagesRead |-> prd, totalReadingTime |-> 0,
   readingSpeed |-> 0, bookmarks |-> <<>>, notes |-> <<>>]

\* The aggregate fields of a new User document: empty shelves, the defaults of
\* userStatisticsSchema, no lastReadingDate, the default readingGoals.
NewUser == [currentlyReading |-> <<>>, finishedBooks |-> <<>>,
            booksRead |-> 0, pagesRead |-> 0, totalReadingTime |-> 0,
            readingStreak |-> 0, currentStreak |-> 0, longestStreak |-> 0,
            lastReadingDate |-> Absent,
            booksPerYear |-> DefaultBooksPerYear, pagesPerDay |-> DefaultPagesPerDay]

IdleProc == [pc |-> "idle", op |-> "none", user |-> "none", book |-> "none",
             sid |-> 0, page |-> Absent, delta |-> Absent, time |-> 0,
             arg |-> "none", now |-> 0, doc |-> NoDoc, newPage |-> 0,
             prog |-> 0, inc |-> 0, code |-> 0, rid |-> 0,
             udoc |-> NewUser, streak |-> 0, day |-> 0,
             goals |-> [books |-> 0, pages |-> 0]]

\* ----------------------------------------------------------------- store
SessionIds == 1..Len(sessions)

\* Model.findOne(filter): the first document, in insertion order, that matches.
\* 0 stands for null.
FindOne(ids) ==
  IF ids # {} THEN CHOOSE i \in ids : \A j \in ids : i <= j ELSE 0

\* The sessions matching the filter {user, book}.
SessionsOf(u, b) ==
  {i \in SessionIds : sessions[i].user = u /\ sessions[i].book = b}

\* The sessions matching the filter {user, book, status: 'active'}.
ActiveFor(u, b) == {i \in SessionsOf(u, b) : sessions[i].status = "active"}

\* currentPage validator of the schema: v >= this.startPage.
CurrentPageValid(cp, sp) == cp >= sp

\* document.save() of a loaded document: validates and writes the modified
\* paths only (a path set to the value it was loaded with is not modified).
SaveValid(loaded, doc) ==
  \/ doc.currentPage = loaded.currentPage
  \/ doc.currentPage = Absent
  \/ CurrentPageValid(doc.currentPage, doc.startPage)

SaveModified(stored, loaded, doc) ==
  [f \in DOMAIN stored |-> IF doc[f] # loaded[f] THEN doc[f] ELSE stored[f]]

\* pagesRead / (totalReadingTime / 3600), pages per hour: the quotient is a
\* whole number for every reading time a behaviour reaches.
ReadingSpeed(pages, time) == (pages * 3600) \div time

\* readingSessionSchema.pre('save'): readingSpeed is recomputed when the
\* document has reading time and pages read (lastReadAt, endTime and the notes'
\* timestamps, which the hook also sets, are not part of the model).
SessionPreSave(doc) ==
  [doc EXCEPT !.readingSpeed =
     IF doc.totalReadingTime > 0 /\ doc.pagesRead > 0
     THEN ReadingSpeed(doc.pagesRead, doc.totalReadingTime)
     ELSE @]

\* $addToSet of a subdocument: appended unless an equal element is present.
AddToSet(seq, e) == IF \E i \in 1..Len(seq) : seq[i] = e THEN seq ELSE Append(seq, e)

PullBookNone(seq, b) == seq

\* $pull: { list: { book } }
PullBook(seq, b) == SelectSeq(seq, LAMBDA e : e.book # b)

HasBook(seq, b) == \E i \in 1..Len(seq) : seq[i].book = b

\* ------------------------------------------------------------- responses
\* res.status(c).json(...): the handler ends; the slot keeps the response.
Respond(p, c, id) ==
  procs' = [procs EXCEPT ![p] = [IdleProc EXCEPT
              !.pc = "done", !.op = procs[p].op, !.sid = procs[p].sid,
              !.arg = procs[p].arg, !.code = c, !.rid = id]]

Goto(p, label) == procs' = [procs EXCEPT ![p].pc = label]

Free(p) == procs[p].pc \in {"idle", "done"}

\* A request arrives: the handler reads req.body and req.user.id.
Begin(p, max, op, first, u, b, sid, page, delta, time, arg) ==
  /\ Free(p)
  /\ nreq < max
  /\ nreq' = nreq + 1
  /\ procs' = [procs EXCEPT ![p] = [IdleProc EXCEPT
                 !.pc = first, !.op = op, !.user = u, !.book = b, !.sid = sid,
                 !.page = page, !.delta = delta, !.time = time, !.arg = arg,
                 !.now = nreq + 1]]
  /\ UNCHANGED <<sessions, users, today>>

\* ------------------------------------------- startReadingSession (Start)
BeginStart(p, U, B, max) ==
  \E u \in U, b \in B, sp \in StartPages :
    Begin(p, max, "Start", "s1", u, b, 0, sp, Absent, 0, "none")

\* findOne({user, book, status: 'active'}); an existing session is returned.
StartFindActive(p) ==
  /\ procs[p].pc = "s1"
  /\ LET r == procs[p]
         e == FindOne(ActiveFor(r.user, r.book))
     IN IF e # 0 THEN Respond(p, 200, e) ELSE Goto(p, "s2")
  /\ UNCHANGED <<sessions, users, nreq, today>>

CompletedFilterNever(s, u, b) == FALSE

\* The filter {user, book, status: 'completed'}.
CompletedFilter(s, u, b) == s.user = u /\ s.book = b /\ s.status = "completed"

\* findOne({user, book, status: 'completed'}); 400 when there is one.
StartFindCompleted(p) ==
  /\ procs[p].pc = "s2"
  /\ LET r == procs[p]
         c == FindOne({i \in SessionIds : CompletedFilter(sessions[i], r.user, r.book)})
     IN IF c # 0 THEN Respond(p, 400, 0) ELSE Goto(p, "s3")
  /\ UNCHANGED <<sessions, users, nreq, today>>

\* new ReadingSession({...}).save()
StartInsert(p) ==
  /\ procs[p].pc = "s3"
  /\ LET r == procs[p]
         sp == Max(0, r.page)
     IN /\ sessions' = Append(sessions, NewSession(r.user, r.book, sp, sp, 0, 0))
        /\ procs' = [procs EXCEPT ![p].pc = "s4", ![p].sid = Len(sessions) + 1]
  /\ UNCHANGED <<users, nreq, today>>

\* User.findByIdAndUpdate(userId, {$addToSet: {currentlyReading: {...}}})
StartAddToShelf(p) ==
  /\ procs[p].pc = "s4"
  /\ LET r == procs[p]
         e == [book |-> r.book, stamp |-> r.now, currentPage |-> 0, progress |-> 0]
     IN users' = [users EXCEPT ![r.user].currentlyReading = AddToSet(@, e)]
  /\ Respond(p, 201, procs[p].sid)
  /\ UNCHANGED <<sessions, nreq, today>>

\* ------------------------------------------- pauseReadingSession (Pause)
BeginPause(p, U, max) ==
  \E u \in U, sid \in SessionIds :
    Begin(p, max, "Pause", "p1", u, "none", sid, Absent, Absent, 0, "none")

PauseFilterAnyOpen(s, u) == s.user = u /\ s.status \in {"active", "paused"}

\* The filter {_id, user, status: 'active'} of pauseReadingSession.
PauseFilter(s, u) == s.user = u /\ s.status = "active"

PauseSetResetsProgress(s) == [s EXCEPT !.status = "paused", !.progress = 0]

\* The update document of pauseReadingSession: status (and the timestamps
\* pausedAt and lastReadAt).
PauseSet(s) == [s EXCEPT !.status = "paused"]

\* findOneAndUpdate({_id, user, status: 'active'}, {status: 'paused'})
Pause(p) ==
  /\ procs[p].pc = "p1"
  /\ LET r == procs[p]
         s == sessions[r.sid]
     IN IF PauseFilter(s, r.user)
        THEN /\ sessions' = [sessions EXCEPT ![r.sid] = PauseSet(@)]
             /\ Respond(p, 200, r.sid)
        ELSE /\ UNCHANGED sessions
             /\ Respond(p, 404, 0)
  /\ UNCHANGED <<users, nreq, today>>

\* ----------------------------------------- resumeReadingSession (Resume)
BeginResume(p, U, max) ==
  \E u \in U, sid \in SessionIds :
    Begin(p, max, "Resume", "r1", u, "none", sid, Absent, Absent, 0, "none")

\* The filter {_id, user, status: 'paused'} of resumeReadingSession.
ResumeFilter(s, u) == s.user = u /\ s.status = "paused"

\* findOneAndUpdate({_id, user, status: 'paused'}, {status: 'active'})
Resume(p) ==
  /\ procs[p].pc = "r1"
  /\ LET r == procs[p]
         s == sessions[r.sid]
     IN IF ResumeFilter(s, r.user)
        THEN /\ sessions' = [sessions EXCEPT ![r.sid].status = "active"]
             /\ Respond(p, 200, r.sid)
        ELSE /\ UNCHANGED sessions
             /\ Respond(p, 404, 0)
  /\ UNCHANGED <<users, nreq, today>>

\* --------------------------------- updateReadingProgress (reading route)
\* Either currentPage or pagesRead is given.
BeginUpdate(p, U, P, max) ==
  \E u \in U, sid \in SessionIds, t \in TimeInputs :
    \/ \E cp \in P :
         Begin(p, max, "Update", "u1", u, "none", sid, cp, Absent, t, "none")
    \/ \E d \in DeltaInputs :
         Begin(p, max, "Update", "u1", u, "none", sid, Absent, d, t, "none")

\* Math.max(0, Math.min(pageCount, target)); NaN (Absent) when pageCount is undefined.
ClampPage(target, pc) == IF pc = Absent THEN Absent ELSE Max(0, Min(pc, target))

\* The new current page of the reading route: from currentPage, else from pagesRead.
NewCurrentPage(cur, page, delta, pc) ==
  IF page # Absent THEN ClampPage(page, pc)
  ELSE IF delta # Absent THEN ClampPage(cur + delta, pc)
  ELSE cur

\* pageCount > 0 ? Math.round(newCurrentPage / pageCount * 100) : 0
Progress(newPage, pc) == IF pc > 0 THEN RoundPercent(newPage, pc) ELSE 0

PagesReadIncAbsolute(cur, newPage, delta) ==
  IF delta # Absent /\ delta > 0 THEN Max(0, delta)
  ELSE IF newPage = Absent THEN 0
  ELSE Max(0, newPage)

\* $inc.pagesRead: the given pagesRead when positive, else the forward page change.
PagesReadInc(cur, newPage, delta) ==
  IF delta # Absent /\ delta > 0 THEN Max(0, delta)
  ELSE IF newPage = Absent THEN 0
  ELSE Max(0, newPage - cur)

\* $inc.totalReadingTime: readingTime when positive.
ReadingTimeInc(time) == IF time > 0 THEN Max(0, time) ELSE 0

\* findOne({_id, user, status: 'active'}), then the update is computed from the
\* loaded document.
UpdateFind(p) ==
  /\ procs[p].pc = "u1"
  /\ LET r == procs[p]
         s == sessions[r.sid]
         pc == pageCount(s.book)
         np == NewCurrentPage(s.currentPage, r.page, r.delta, pc)
     IN IF s.user = r.user /\ s.status = "active"
        THEN procs' = [procs EXCEPT ![p].pc = IF r.arg = "note" THEN "n1" ELSE "u2",
                         ![p].doc = s, ![p].book = s.book,
                         ![p].newPage = np, ![p].prog = Progress(np, pc),
                         ![p].inc = PagesReadInc(s.currentPage, np, r.delta)]
        ELSE Respond(p, 404, 0)
  /\ UNCHANGED <<sessions, users, nreq, today>>

\* An UpdateProgress whose body carries a note.
BeginUpdateNote(p, U, P, max) ==
  \E u \in U, sid \in SessionIds, t \in TimeInputs :
    \/ \E cp \in P :
         Begin(p, max, "Update", "u1", u, "none", sid, cp, Absent, t, "note")
    \/ \E d \in DeltaInputs :
         Begin(p, max, "Update", "u1", u, "none", sid, Absent, d, t, "note")

\* notes.push({page, content, createdAt: new Date()}); the content is not part
\* of the model.
PushNote(doc, page, now) ==
  [doc EXCEPT !.notes = Append(@, [page |-> page, stamp |-> now])]

\* "if (note && note.trim())": the note is pushed on the loaded document, with
\* the new current page, and readingSession.save() runs before the update is
\* sent.
UpdateNoteSave(p) ==
  /\ procs[p].pc = "n1"
  /\ LET r == procs[p]
         d == SessionPreSave(PushNote(r.doc, r.newPage, r.now))
     IN sessions' = [sessions EXCEPT ![r.sid] = SaveModified(@, r.doc, d)]
  /\ Goto(p, "u2")
  /\ UNCHANGED <<users, nreq, today>>

\* The update document of findByIdAndUpdate applied to the stored session.
ApplyUpdate(s, newPage, prog, inc, tinc) ==
  [s EXCEPT !.currentPage = newPage, !.progress = prog,
            !.pagesRead = @ + inc, !.totalReadingTime = @ + tinc]

\* findByIdAndUpdate(sessionId, updateData, {runValidators: true}): a NaN page
\* cannot be cast and a page below startPage fails the validator; both throw.
\* The validator reads this.startPage, and in an update validator "this" is
\* what the library binds it to, not the stored document: it may also reject
\* a page that is not below startPage.
UpdateWrite(p) ==
  /\ procs[p].pc = "u2"
  /\ LET r == procs[p]
         s == sessions[r.sid]
     IN \/ /\ UNCHANGED sessions
           /\ Respond(p, 500, 0)
        \/ /\ r.newPage # Absent
           /\ CurrentPageValid(r.newPage, s.startPage)
           /\ sessions' = [sessions EXCEPT ![r.sid] =
                 ApplyUpdate(s, r.newPage, r.prog, r.inc, ReadingTimeInc(r.time))]
           /\ Goto(p, "u3")
  /\ UNCHANGED <<users, nreq, today>>

\* $set currentlyReading.$[elem] with arrayFilters elem.book: every entry of the book.
SetShelfProgress(seq, b, cp, pr) ==
  [i \in 1..Len(seq) |->
     IF seq[i].book = b THEN [seq[i] EXCEPT !.currentPage = cp, !.progress = pr]
     ELSE seq[i]]

\* User.findByIdAndUpdate(...), then "if (progress >= 95) completeReadingSession".
UpdateShelf(p) ==
  /\ procs[p].pc = "u3"
  /\ LET r == procs[p]
     IN /\ users' = [users EXCEPT ![r.user].currentlyReading =
                       SetShelfProgress(@, r.book, r.newPage, r.prog)]
        /\ IF r.prog >= CompletionThreshold
           THEN Goto(p, "h1")
           ELSE Respond(p, 200, r.sid)
  /\ UNCHANGED <<sessions, nreq, today>>

\* ------------------- completeReadingSession(sessionId, userId), the helper
\* findById; returns when the session is already completed.
HelperFind(p) ==
  /\ procs[p].pc = "h1"
  /\ LET r == procs[p]
         s == sessions[r.sid]
     IN IF s.status = "completed"
        THEN Respond(p, 200, r.sid)
        ELSE procs' = [procs EXCEPT ![p].pc = "h2", ![p].doc = s]
  /\ UNCHANGED <<sessions, users, nreq, today>>

\* The fields the helper sets before save(): status and progress.
HelperCompleted(doc) == [doc EXCEPT !.status = "completed", !.progress = 100]

HelperSave(p) ==
  /\ procs[p].pc = "h2"
  /\ LET r == procs[p]
     IN sessions' = [sessions EXCEPT ![r.sid] =
                       SaveModified(@, r.doc, SessionPreSave(HelperCompleted(r.doc)))]
  /\ Goto(p, "h3")
  /\ UNCHANGED <<users, nreq, today>>

\* The aggregate write of the helper: $pull and $addToSet, no $inc of the stats.
HelperAggregate(agg, doc, now) ==
  [agg EXCEPT
     !.currentlyReading = PullBook(@, doc.book),
     !.finishedBooks = AddToSet(@, [book |-> doc.book, stamp |-> now,
                                    readingTime |-> doc.totalReadingTime,
                                    pagesRead |-> doc.pagesRead])]

\* User.findByIdAndUpdate(userId, {$pull, $addToSet}), then updateReadingStreak.
\* The session and the user are separate documents with no transaction: the
\* write of the user can fail after the session was saved; the error reaches
\* the catch of updateReadingProgress (500).
HelperShelf(p) ==
  /\ procs[p].pc = "h3"
  /\ LET r == procs[p]
     IN \/ /\ users' = [users EXCEPT ![r.user] = HelperAggregate(@, r.doc, r.now)]
           /\ Goto(p, "k1")
        \/ /\ UNCHANGED users
           /\ Respond(p, 500, 0)
  /\ UNCHANGED <<sessions, nreq, today>>

\* ------------------------------ completeReadingSession (exported, Complete)
BeginComplete(p, U, max) ==
  \E u \in U, sid \in SessionIds :
    Begin(p, max, "Complete", "c1", u, "none", sid, Absent, Absent, 0, "none")

\* findOne({_id, user, status: {$in: ['active', 'paused']}})
CompleteFind(p) ==
  /\ procs[p].pc = "c1"
  /\ LET r == procs[p]
         s == sessions[r.sid]
     IN IF s.user = r.user /\ s.status \in {"active", "paused"}
        THEN procs' = [procs EXCEPT ![p].pc = "c2", ![p].doc = s, ![p].book = s.book]
        ELSE Respond(p, 404, 0)
  /\ UNCHANGED <<sessions, users, nreq, today>>

\* The fields the handler sets before save(): status, progress, currentPage.
Completed(doc) ==
  [doc EXCEPT !.status = "completed", !.progress = 100,
              !.currentPage = pageCount(doc.book)]

\* readingSession.save(): a currentPage below startPage fails validation (500).
CompleteSave(p) ==
  /\ procs[p].pc = "c2"
  /\ LET r == procs[p]
         d == SessionPreSave(Completed(r.doc))
     IN IF SaveValid(r.doc, d)
        THEN /\ sessions' = [sessions EXCEPT ![r.sid] = SaveModified(@, r.doc, d)]
             /\ procs' = [procs EXCEPT ![p].pc = "c3", ![p].doc = d]
        ELSE /\ UNCHANGED sessions
             /\ Respond(p, 500, 0)
  /\ UNCHANGED <<users, nreq, today>>

\* readingSession.pagesRead || readingSession.book.pageCount
PagesReadOrPageCount(doc) ==
  IF doc.pagesRead # 0 THEN doc.pagesRead ELSE pageCount(doc.book)

\* The aggregate write of Complete: $pull, $addToSet and $inc in one update.
CompleteAggregate(agg, doc, now, pages) ==
  [agg EXCEPT
     !.currentlyReading = PullBook(@, doc.book),
     !.finishedBooks = AddToSet(@, [book |-> doc.book, stamp |-> now,
                                    readingTime |-> doc.totalReadingTime,
                                    pagesRead |-> pages]),
     !.booksRead = @ + 1,
     !.pagesRead = @ + pages,
     !.totalReadingTime = @ + doc.totalReadingTime]

\* User.findByIdAndUpdate(userId, {$pull, $addToSet, $inc}), then
\* updateReadingStreak.  An $inc of undefined (no pagesRead and no pageCount) is
\* either dropped from the update or rejected by the store, depending on the
\* driver.  The session and the user are separate documents with no
\* transaction: the write of the user can fail after the session was saved (500).
CompleteShelf(p) ==
  /\ procs[p].pc = "c3"
  /\ LET r == procs[p]
         pages == PagesReadOrPageCount(r.doc)
     IN \/ /\ users' = [users EXCEPT ![r.user] =
                 CompleteAggregate(@, r.doc, r.now, IF pages = Absent THEN 0 ELSE pages)]
           /\ Goto(p, "k1")
        \/ /\ UNCHANGED users
           /\ Respond(p, 500, 0)
  /\ UNCHANGED <<sessions, nreq, today>>

\* ------------------------------------- updateReadingStreak(userId), the helper
NewStreakNoReset(streak, last, day) ==
  IF last = Absent THEN 1
  ELSE IF last = day THEN streak
  ELSE streak + 1

\* newStreak of the helper, from stats.readingStreak and stats.lastReadingDate.
NewStreak(streak, last, day) ==
  IF last = Absent THEN 1
  ELSE IF last = day - 1 THEN streak + 1
  ELSE IF last = day THEN streak
  ELSE 1

\* User.findById(userId); today, yesterday and newStreak are computed from it.
StreakFind(p) ==
  /\ procs[p].pc = "k1"
  /\ LET r == procs[p]
         u == users[r.user]
     IN procs' = [procs EXCEPT
                    ![p].pc = "k2", ![p].udoc = u, ![p].day = today,
                    ![p].streak = NewStreak(u.readingStreak, u.lastReadingDate, today)]
  /\ UNCHANGED <<sessions, users, nreq, today>>

\* $set of the helper: stats.readingStreak and stats.lastReadingDate.
StreakSet(agg, streak, day) ==
  [agg EXCEPT !.readingStreak = streak, !.lastReadingDate = day]

\* User.findByIdAndUpdate(userId, {$set: {...}}); the caller then answers 200.
StreakWrite(p) ==
  /\ procs[p].pc = "k2"
  /\ LET r == procs[p]
     IN users' = [users EXCEPT ![r.user] = StreakSet(@, r.streak, r.day)]
  /\ Respond(p, 200, procs[p].sid)
  /\ UNCHANGED <<sessions, nreq, today>>

\* ------------------------------ readingSessionSchema.methods (the model)
\* A caller loads the session by id and calls one of its methods.
BeginMethod(p, U, P, max) ==
  \E u \in U, sid \in SessionIds :
    \/ \E m \in Methods \ {"updateProgress"} :
         Begin(p, max, "Method", "m1", u, "none", sid, Absent, Absent, 0, m)
    \/ \E cp \in P, t \in TimeInputs :
         Begin(p, max, "Method", "m1", u, "none", sid, cp, Absent, t, "updateProgress")

\* ReadingSession.findById(sessionId)
MethodLoad(p) ==
  /\ procs[p].pc = "m1"
  /\ procs' = [procs EXCEPT ![p].pc = "m2", ![p].doc = sessions[procs[p].sid],
                            ![p].book = sessions[procs[p].sid].book]
  /\ UNCHANGED <<sessions, users, nreq, today>>

\* methods.pause / methods.resume throw unless the status is the expected one.
MethodAllowed(m, doc) ==
  /\ m = "pause" => doc.status = "active"
  /\ m = "resume" => doc.status = "paused"

\* methods.updateProgress(currentPage, totalPages, readingTime): the document
\* after the method's assignments; the page is clamped into [startPage, totalPages].
MethodUpdateProgress(doc, page, total, time) ==
  LET cp == IF total = Absent THEN Absent ELSE Max(doc.startPage, Min(total, page))
  IN [doc EXCEPT
        !.currentPage = cp,
        !.progress = IF total > 0 THEN RoundPercent(cp, total) ELSE @,
        !.pagesRead = IF cp = Absent THEN @ ELSE @ + Max(0, cp - doc.currentPage),
        !.totalReadingTime = IF time > 0 THEN @ + time ELSE @]

\* The document after the method's assignments, before save().
MethodResult(m, doc, page, time) ==
  CASE m = "pause" -> [doc EXCEPT !.status = "paused"]
    [] m = "resume" -> [doc EXCEPT !.status = "active"]
    [] m = "complete" -> [doc EXCEPT !.status = "completed", !.progress = 100]
    [] m = "abandon" -> [doc EXCEPT !.status = "abandoned"]
    [] m = "updateProgress" -> MethodUpdateProgress(doc, page, pageCount(doc.book), time)

\* The method runs on the loaded document and ends with this.save(); a NaN
\* currentPage cannot be cast, so that save throws.
MethodSave(p) ==
  /\ procs[p].pc = "m2"
  /\ LET r == procs[p]
         d == SessionPreSave(MethodResult(r.arg, r.doc, r.page, r.time))
     IN IF /\ MethodAllowed(r.arg, r.doc)
           /\ ~(r.arg = "updateProgress" /\ d.currentPage = Absent)
           /\ SaveValid(r.doc, d)
        THEN /\ sessions' = [sessions EXCEPT ![r.sid] = SaveModified(@, r.doc, d)]
             /\ Respond(p, 200, r.sid)
        ELSE /\ UNCHANGED sessions
             /\ Respond(p, 500, 0)
  /\ UNCHANGED <<users, nreq, today>>

\* ----------------------------------- updateReadingProgress (user route)
\* PUT /api/users/reading-progress: bookId and currentPage or progress.
BeginShelfProgress(p, U, B, P, max) ==
  \E u \in U, b \in B :
    \/ \E cp \in P :
         Begin(p, max, "ShelfProgress", "q1", u, b, 0, cp, Absent, 0, "none")
    \/ \E pr \in ProgressInputs :
         Begin(p, max, "ShelfProgress", "q1", u, b, 0, Absent, pr, 0, "none")

\* newCurrentPage of the user route (the percentage travels in r.delta).
ShelfNewPage(page, percent, pc) ==
  IF page # Absent THEN ClampPage(page, pc)
  ELSE IF pc > 0 THEN RoundPercent(Max(0, Min(100, percent)) * pc, 100 * 100)
  ELSE 0

\* newProgress of the user route.
ShelfNewProgress(page, percent, pc) ==
  IF page # Absent THEN Progress(ClampPage(page, pc), pc)
  ELSE Max(0, Min(100, percent))

\* $set currentlyReading.$ : the first entry of the book.
SetFirstShelfProgress(seq, b, cp, pr) ==
  LET k == CHOOSE i \in 1..Len(seq) :
             seq[i].book = b /\ \A j \in 1..(i - 1) : seq[j].book # b
  IN [seq EXCEPT ![k].currentPage = cp, ![k].progress = pr]

\* User.findOneAndUpdate({_id, 'currentlyReading.book': bookId}, {$set: ...}):
\* null when the book is not on the shelf (404); a NaN page cannot be cast (500).
ShelfProgressUser(p) ==
  /\ procs[p].pc = "q1"
  /\ LET r == procs[p]
         pc == pageCount(r.book)
         np == ShelfNewPage(r.page, r.delta, pc)
         pr == ShelfNewProgress(r.page, r.delta, pc)
     IN IF np = Absent
        THEN /\ UNCHANGED users
             /\ Respond(p, 500, 0)
        ELSE IF ~HasBook(users[r.user].currentlyReading, r.book)
        THEN /\ UNCHANGED users
             /\ Respond(p, 404, 0)
        ELSE /\ users' = [users EXCEPT ![r.user].currentlyReading =
                            SetFirstShelfProgress(@, r.book, np, pr)]
             /\ procs' = [procs EXCEPT ![p].pc = "q2", ![p].newPage = np, ![p].prog = pr]
  /\ UNCHANGED <<sessions, nreq, today>>

\* newCurrentPage - (await findOne({user, book}))?.currentPage || 0
ShelfPagesReadInc(newPage, found) ==
  IF found = 0 \/ sessions[found].currentPage = Absent THEN 0
  ELSE newPage - sessions[found].currentPage

\* ReadingSession.findOne({user, book}), inside the update document.
ShelfProgressFind(p) ==
  /\ procs[p].pc = "q2"
  /\ LET r == procs[p]
         f == FindOne(SessionsOf(r.user, r.book))
     IN procs' = [procs EXCEPT ![p].pc = "q3", ![p].inc = ShelfPagesReadInc(r.newPage, f)]
  /\ UNCHANGED <<sessions, users, nreq, today>>

\* ReadingSession.findOneAndUpdate({user, book, status: 'active'}, {...},
\* {upsert: true}): updates the first active session, else inserts one.
ShelfProgressUpsert(p) ==
  /\ procs[p].pc = "q3"
  /\ LET r == procs[p]
         a == FindOne(ActiveFor(r.user, r.book))
     IN /\ sessions' =
             IF a # 0
             THEN [sessions EXCEPT ![a] = ApplyUpdate(@, r.newPage, r.prog, r.inc, 0)]
             ELSE Append(sessions, NewSession(r.user, r.book, 0, r.newPage, r.prog, r.inc))
        /\ Respond(p, 200, IF a # 0 THEN a ELSE Len(sessions) + 1)
  /\ UNCHANGED <<users, nreq, today>>

\* --------------------------------------------------------- addToBookshelf
BeginAddShelf(p, U, B, max) ==
  \E u \in U, b \in B, sh \in ShelfTypes :
    Begin(p, max, "AddShelf", "a1", u, b, 0, Absent, Absent, 0, sh)

\* "Remove book from other shelves first": $pull from every shelf.
AddShelfPull(p) ==
  /\ procs[p].pc = "a1"
  /\ LET r == procs[p]
     IN users' = [users EXCEPT
                    ![r.user].currentlyReading = PullBook(@, r.book),
                    ![r.user].finishedBooks = PullBook(@, r.book)]
  /\ Goto(p, "a2")
  /\ UNCHANGED <<sessions, nreq, today>>

\* book.pageCount || 0
PageCountOrZero(b) == IF pageCount(b) = Absent THEN 0 ELSE pageCount(b)

\* The update of the chosen shelf.
AddShelfAggregate(agg, shelf, b, now) ==
  CASE shelf = "currentlyReading" ->
         [agg EXCEPT !.currentlyReading =
            AddToSet(@, [book |-> b, stamp |-> now, currentPage |-> 0, progress |-> 0])]
    [] shelf = "finished" ->
         [agg EXCEPT
            !.finishedBooks =
               AddToSet(@, [book |-> b, stamp |-> now, readingTime |-> 0, pagesRead |-> 0]),
            !.booksRead = @ + 1,
            !.pagesRead = @ + PageCountOrZero(b)]
    [] shelf = "wantToRead" -> agg

AddShelfUpdate(p) ==
  /\ procs[p].pc = "a2"
  /\ LET r == procs[p]
     IN /\ users' = [users EXCEPT ![r.user] = AddShelfAggregate(@, r.arg, r.book, r.now)]
        /\ IF r.arg = "currentlyReading" THEN Goto(p, "a3") ELSE Respond(p, 200, 0)
  /\ UNCHANGED <<sessions, nreq, today>>

\* findOne({user, book, status: 'active'})
AddShelfFind(p) ==
  /\ procs[p].pc = "a3"
  /\ LET r == procs[p]
         e == FindOne(ActiveFor(r.user, r.book))
     IN IF e # 0 THEN Respond(p, 200, e) ELSE Goto(p, "a4")
  /\ UNCHANGED <<sessions, users, nreq, today>>

\* ReadingSession.create({user, book, startPage: 0, currentPage: 0, status: 'active'})
AddShelfCreate(p) ==
  /\ procs[p].pc = "a4"
  /\ sessions' = Append(sessions, NewSession(procs[p].user, procs[p].book, 0, 0, 0, 0))
  /\ Respond(p, 200, Len(sessions) + 1)
  /\ UNCHANGED <<users, nreq, today>>

\* ---------------------------------------------------- removeFromBookshelf
BeginRemoveShelf(p, U, B, max) ==
  \E u \in U, b \in B, sh \in ShelfTypes :
    Begin(p, max, "RemoveShelf", "d1", u, b, 0, Absent, Absent, 0, sh)

\* The update of the chosen shelf; the stats are decremented without a floor.
RemoveShelfAggregate(agg, shelf, b) ==
  CASE shelf = "currentlyReading" ->
         [agg EXCEPT !.currentlyReading = PullBook(@, b)]
    [] shelf = "finished" ->
         [agg EXCEPT !.finishedBooks = PullBook(@, b),
                     !.booksRead = @ - 1,
                     !.pagesRead = @ - PageCountOrZero(b)]
    [] shelf = "wantToRead" -> agg

RemoveShelfUpdate(p) ==
  /\ procs[p].pc = "d1"
  /\ LET r == procs[p]
     IN /\ users' = [users EXCEPT ![r.user] = RemoveShelfAggregate(@, r.arg, r.book)]
        /\ IF r.arg = "currentlyReading" THEN Goto(p, "d2") ELSE Respond(p, 200, 0)
  /\ UNCHANGED <<sessions, nreq, today>>

\* findOneAndUpdate({user, book, status: 'active'}, {status: 'paused'})
RemoveShelfPause(p) ==
  /\ procs[p].pc = "d2"
  /\ LET r == procs[p]
         a == FindOne(ActiveFor(r.user, r.book))
     IN /\ sessions' = IF a # 0 THEN [sessions EXCEPT ![a].status = "paused"] ELSE sessions
        /\ Respond(p, 200, a)
  /\ UNCHANGED <<users, nreq, today>>

\* ------------------- userSchema.methods.updateReadingStreak (the User model)
\* A caller loads the user by id and calls the method.
BeginUserStreak(p, U, max) ==
  \E u \in U :
    Begin(p, max, "UserStreak", "w1", u, "none", 0, Absent, Absent, 0, "none")

\* User.findById(userId); the method reads new Date() when it is called.
UserStreakLoad(p) ==
  /\ procs[p].pc = "w1"
  /\ procs' = [procs EXCEPT ![p].pc = "w2", ![p].udoc = users[procs[p].user],
                            ![p].day = today]
  /\ UNCHANGED <<sessions, users, nreq, today>>

UserNewStreakCountsRepeat(streak, last, day) ==
  IF last = Absent THEN 1
  ELSE IF last = day - 1 \/ last = day THEN streak + 1
  ELSE 1

\* newStreak of the method, from stats.currentStreak and stats.lastReadingDate.
UserNewStreak(streak, last, day) ==
  IF last = Absent THEN 1
  ELSE IF last = day - 1 THEN streak + 1
  ELSE IF last = day THEN streak
  ELSE 1

RECURSIVE SumSeq(_)
\* Array.prototype.reduce((total, x) => total + x, 0)
SumSeq(s) == IF s = <<>> THEN 0 ELSE Head(s) + SumSeq(Tail(s))

\* userSchema.pre('save'): the stats are recomputed from finishedBooks.
UserPreSave(doc) ==
  LET fb == doc.finishedBooks
  IN [doc EXCEPT
        !.booksRead = Len(fb),
        !.pagesRead = SumSeq([i \in 1..Len(fb) |-> fb[i].pagesRead]),
        !.totalReadingTime = SumSeq([i \in 1..Len(fb) |-> fb[i].readingTime])]

\* The document after the method's assignments and the pre-save hook.
UserStreakResult(doc, day) ==
  LET ns == UserNewStreak(doc.currentStreak, doc.lastReadingDate, day)
  IN UserPreSave([doc EXCEPT !.lastReadingDate = day,
                             !.currentStreak = ns,
                             !.longestStreak = Max(@, ns)])

\* this.save(): the modified paths of the loaded document are written.
UserStreakSave(p) ==
  /\ procs[p].pc = "w2"
  /\ LET r == procs[p]
     IN users' = [users EXCEPT ![r.user] =
                    SaveModified(@, r.udoc, UserStreakResult(r.udoc, r.day))]
  /\ Respond(p, 200, 0)
  /\ UNCHANGED <<sessions, nreq, today>>

\* ------- getCurrentSessions, getReadingHistory, getReadingStatistics,
\* ------- getBookshelf (the reads of the two aggregates)
ReadOps == {"CurrentSessions", "History", "Statistics", "Bookshelf"}

BeginRead(p, U, max) ==
  \E u \in U, op \in ReadOps :
    Begin(p, max, op, "g1", u, "none", 0, Absent, Absent, 0, "none")

\* ReadingSession.find / aggregate, or User.findById with populate, then
\* res.status(200): the handlers send no write to the store.
Read(p) ==
  /\ procs[p].pc = "g1"
  /\ Respond(p, 200, 0)
  /\ UNCHANGED <<sessions, users, nreq, today>>

\* ------------- readingSessionSchema.methods.addBookmark / removeBookmark
\* A caller loads the session by id and calls one of the two methods with a
\* page number.
BeginBookmark(p, U, max) ==
  \E u \in U, sid \in SessionIds, m \in BookmarkMethods, pg \in BookmarkPages :
    Begin(p, max, "Bookmark", "f1", u, "none", sid, pg, Absent, 0, m)

\* ReadingSession.findById(sessionId)
BookmarkLoad(p) ==
  /\ procs[p].pc = "f1"
  /\ procs' = [procs EXCEPT ![p].pc = "f2", ![p].doc = sessions[procs[p].sid]]
  /\ UNCHANGED <<sessions, users, nreq, today>>

\* this.bookmarks.filter(bm => bm.page !== page)
RemoveBookmark(seq, page) == SelectSeq(seq, LAMBDA e : e.page # page)

AddBookmarkKeepsOld(seq, page, now) == Append(seq, [page |-> page, stamp |-> now])

\* The bookmarks after addBookmark: the bookmark of the page is filtered out
\* and the new one ({page, note, createdAt: new Date()}) is pushed.
AddBookmark(seq, page, now) ==
  Append(RemoveBookmark(seq, page), [page |-> page, stamp |-> now])

\* The document after the method's assignment, before save().
BookmarkResult(m, doc, page, now) ==
  [doc EXCEPT !.bookmarks = IF m = "addBookmark" THEN AddBookmark(@, page, now)
                            ELSE RemoveBookmark(@, page)]

\* this.save(); the caller answers with the page of the call.
BookmarkSave(p) ==
  /\ procs[p].pc = "f2"
  /\ LET r == procs[p]
         d == SessionPreSave(BookmarkResult(r.arg, r.doc, r.page, r.now))
     IN sessions' = [sessions EXCEPT ![r.sid] = SaveModified(@, r.doc, d)]
  /\ Respond(p, 200, procs[p].page)
  /\ UNCHANGED <<users, nreq, today>>

\* ------------------------------------------------- addReadingNote (AddNote)
\* The body carries sessionId, content and possibly a page.
BeginAddNote(p, U, max) ==
  \E u \in U, sid \in SessionIds, pg \in NotePages :
    Begin(p, max, "AddNote", "e1", u, "none", sid, pg, Absent, 0, "none")

AddNoteFilterAnyUser(s, u) == TRUE

\* The filter {_id, user} of addReadingNote.
AddNoteFilter(s, u) == s.user = u

\* findOne({_id, user}); 404 when there is none.
AddNoteFind(p) ==
  /\ procs[p].pc = "e1"
  /\ LET r == procs[p]
         s == sessions[r.sid]
     IN IF AddNoteFilter(s, r.user)
        THEN procs' = [procs EXCEPT ![p].pc = "e2", ![p].doc = s, ![p].book = s.book]
        ELSE Respond(p, 404, 0)
  /\ UNCHANGED <<sessions, users, nreq, today>>

\* page || readingSession.currentPage
NotePage(page, cur) == IF page = Absent \/ page = 0 THEN cur ELSE page

\* notes.push(note), readingSession.save(), 201.
AddNoteSave(p) ==
  /\ procs[p].pc = "e2"
  /\ LET r == procs[p]
         d == SessionPreSave(PushNote(r.doc, NotePage(r.page, r.doc.currentPage), r.now))
     IN sessions' = [sessions EXCEPT ![r.sid] = SaveModified(@, r.doc, d)]
  /\ Respond(p, 201, procs[p].sid)
  /\ UNCHANGED <<users, nreq, today>>

\* ------------------------------------------- updateReadingGoals (user route)
\* PUT /api/users/reading-goals: booksPerYear, pagesPerDay, or both.
BeginUpdateGoals(p, U, max) ==
  \E u \in U, by \in GoalInputs \cup {Absent}, pd \in GoalInputs \cup {Absent} :
    Begin(p, max, "UpdateGoals", "j1", u, "none", 0, by, pd, 0, "none")

\* Math.max(1, Math.min(1000, parseInt(booksPerYear))), likewise pagesPerDay
\* with 500.
ClampGoal(v, most) == Max(1, Min(most, v))

\* 400 when neither goal is given; else User.findByIdAndUpdate(userId, {$set}).
UpdateGoals(p) ==
  /\ procs[p].pc = "j1"
  /\ LET r == procs[p]
     IN IF r.page = Absent /\ r.delta = Absent
        THEN /\ UNCHANGED users
             /\ Respond(p, 400, 0)
        ELSE /\ users' = [users EXCEPT
                    ![r.user].booksPerYear =
                       IF r.page # Absent THEN ClampGoal(r.page, 1000) ELSE @,
                    ![r.user].pagesPerDay =
                       IF r.delta # Absent THEN ClampGoal(r.delta, 500) ELSE @]
             /\ Respond(p, 200, 0)
  /\ UNCHANGED <<sessions, nreq, today>>

\* ------------------ getReadingGoals / getReadingGoalsProgress (the helpers
\* ------------------ of getReadingStatistics and getUserStatistics)
GoalOps == {"ReadingGoals", "ReadingGoalsProgress"}

BeginGoals(p, U, max) ==
  \E u \in U, op \in GoalOps :
    Begin(p, max, op, "y1", u, "none", 0, Absent, Absent, 0, "none")

\* User.findById(userId).select('preferences.readingGoals')
GoalsLoad(p) ==
  /\ procs[p].pc = "y1"
  /\ procs' = [procs EXCEPT ![p].pc = "y2", ![p].udoc = users[procs[p].user]]
  /\ UNCHANGED <<sessions, users, nreq, today>>

\* $match {user, status: 'completed', endTime >= yearStart}: every day of a
\* behaviour lies in one calendar year, and every completed session has an
\* endTime.
YearlyCompleted(u) ==
  {i \in SessionIds : sessions[i].user = u /\ sessions[i].status = "completed"}

RECURSIVE SumPagesRead(_)
\* $group {booksRead: {$sum: 1}, pagesRead: {$sum: '$pagesRead'}}
SumPagesRead(ids) ==
  IF ids = {} THEN 0
  ELSE LET i == CHOOSE j \in ids : TRUE
       IN sessions[i].pagesRead + SumPagesRead(ids \ {i})

\* Math.round((completed / target) * 100)
GoalProgress(completed, target) == RoundPercent(completed, target)

\* The yearly books and pages progress the helper returns.
GoalsResult(goals, ids) ==
  [books |-> GoalProgress(Cardinality(ids), goals.booksPerYear),
   pages |-> GoalProgress(SumPagesRead(ids), goals.pagesPerDay * 365)]

\* ReadingSession.aggregate([...]), then the caller answers 200 with the
\* result.  Mongoose does not cast an aggregation pipeline: the $match selects
\* the user's sessions when the id reaches it as an ObjectId and selects
\* nothing when it reaches it as the string req.user.id.
GoalsAggregate(p) ==
  /\ procs[p].pc = "y2"
  /\ \E ids \in {YearlyCompleted(procs[p].user), {}} :
       procs' = [procs EXCEPT ![p] = [IdleProc EXCEPT
                   !.pc = "done", !.op = procs[p].op, !.code = 200,
                   !.goals = GoalsResult(procs[p].udoc, ids)]]
  /\ UNCHANGED <<sessions, users, nreq, today>>

\* ------------------------------------------------------------------ clock
\* Midnight passes: new Date() is on the next calendar day.
NextDay ==
  /\ today < MaxDay
  /\ today' = today + 1
  /\ UNCHANGED <<sessions, users, procs, nreq>>

\* ----------------------------------------------------------------- specs
Init ==
  /\ sessions = <<>>
  /\ users = [u \in Users |-> NewUser]
  /\ procs = [p \in Procs |-> IdleProc]
  /\ nreq = 0
  /\ today = 0

Step(p, U, B, P, max) ==
  \/ BeginStart(p, U, B, max) \/ StartFindActive(p) \/ StartFindCompleted(p)
  \/ StartInsert(p) \/ StartAddToShelf(p)
  \/ BeginPause(p, U, max) \/ Pause(p)
  \/ BeginResume(p, U, max) \/ Resume(p)
  \/ BeginUpdate(p, U, P, max) \/ UpdateFind(p) \/ UpdateWrite(p) \/ UpdateShelf(p)
  \/ HelperFind(p) \/ HelperSave(p) \/ HelperShelf(p)
  \/ BeginComplete(p, U, max) \/ CompleteFind(p) \/ CompleteSave(p) \/ CompleteShelf(p)
  \/ StreakFind(p) \/ StreakWrite(p)
  \/ BeginMethod(p, U, P, max) \/ MethodLoad(p) \/ MethodSave(p)
  \/ BeginShelfProgress(p, U, B, P, max) \/ ShelfProgressUser(p)
  \/ ShelfProgressFind(p) \/ ShelfProgressUpsert(p)
  \/ BeginAddShelf(p, U, B, max) \/ AddShelfPull(p) \/ AddShelfUpdate(p)
  \/ AddShelfFind(p) \/ AddShelfCreate(p)
  \/ BeginRemoveShelf(p, U, B, max) \/ RemoveShelfUpdate(p) \/ RemoveShelfPause(p)

\* One client, one request at a time: every handler runs to its response
\* before the next request arrives.
Next == Step(1, {"u1"}, {"b1", "b2"}, PageInputs, MaxRequests)

Spec == Init /\ [][Next]_vars

\* One client, one book, one request at a time, one request more.
LongNext == Step(1, {"u1"}, {"b1"}, PageInputs, MaxLongRequests)

LongSpec == Init /\ [][LongNext]_vars

\* One client, the two books with a pageCount, every page as input.
PageNext == Step(1, {"u1"}, {"b1", "b3"}, AllPages, MaxPageRequests)

PageSpec == Init /\ [][PageNext]_vars

\* Two requests of one client in flight: the handlers interleave at their awaits.
ConcNext == \E p \in Procs : Step(p, {"u1"}, {"b1"}, PageInputs, MaxConcRequests)

ConcSpec == Init /\ [][ConcNext]_vars

\* Start and Complete only.
LifecycleStep(p, U, B, max) ==
  \/ BeginStart(p, U, B, max) \/ StartFindActive(p) \/ StartFindCompleted(p)
  \/ StartInsert(p) \/ StartAddToShelf(p)
  \/ BeginComplete(p, U, max) \/ CompleteFind(p) \/ CompleteSave(p) \/ CompleteShelf(p)
  \/ StreakFind(p) \/ StreakWrite(p)

\* One client over several days: Start, Complete and the streak method of the
\* User model, one request at a time.
StreakNext ==
  \/ LifecycleStep(1, {"u1"}, {"b1", "b3"}, MaxStreakRequests)
  \/ BeginUserStreak(1, {"u1"}, MaxStreakRequests)
  \/ UserStreakLoad(1) \/ UserStreakSave(1)
  \/ NextDay

StreakSpec == Init /\ [][StreakNext]_vars

\* Two requests in flight, over several days; the requests of a day are
\* answered before the next day begins.  The streak of u1 is kept by the
\* reading controller (Start and Complete requests), the streak of u2 by the
\* method of the User model.
StreakConcNext ==
  \/ \E p \in Procs :
       \/ LifecycleStep(p, {"u1"}, {"b1"}, MaxStreakConcRequests)
       \/ BeginUserStreak(p, {"u2"}, MaxStreakConcRequests)
       \/ UserStreakLoad(p) \/ UserStreakSave(p)
  \/ (\A p \in Procs : Free(p)) /\ NextDay

StreakConcSpec == Init /\ [][StreakConcNext]_vars

\* Two Start or Complete requests of one client in flight, on one day.
LifecycleConcNext ==
  \E p \in Procs : LifecycleStep(p, {"u1"}, {"b1"}, MaxLifecycleRequests)

LifecycleConcSpec == Init /\ [][LifecycleConcNext]_vars

\* One client, one request at a time: Start, Complete and the reads.
ReadNext ==
  \/ LifecycleStep(1, {"u1"}, {"b1", "b3"}, MaxReadRequests)
  \/ BeginRead(1, {"u1"}, MaxReadRequests) \/ Read(1)

ReadSpec == Init /\ [][ReadNext]_vars

\* One client, one request at a time: Start, Complete and the reading goals.
GoalNext ==
  \/ LifecycleStep(1, {"u1"}, {"b1", "b3"}, MaxGoalRequests)
  \/ BeginUpdateGoals(1, {"u1"}, MaxGoalRequests) \/ UpdateGoals(1)
  \/ BeginGoals(1, {"u1"}, MaxGoalRequests) \/ GoalsLoad(1) \/ GoalsAggregate(1)

GoalSpec == Init /\ [][GoalNext]_vars

\* One client, one book, one request at a time; an UpdateProgress may carry a
\* note.
SpeedNext ==
  \/ Step(1, {"u1"}, {"b1"}, PageInputs, MaxSpeedRequests)
  \/ BeginUpdateNote(1, {"u1"}, PageInputs, MaxSpeedRequests) \/ UpdateNoteSave(1)

SpeedSpec == Init /\ [][SpeedNext]_vars

\* Start, Complete and bookmark calls, one request at a time; each request is
\* served by the slot that is not holding the previous response.
BookmarkNext ==
  \E p \in Procs :
    /\ \A q \in Procs \ {p} : Free(q)
    /\ \/ LifecycleStep(p, {"u1"}, {"b1"}, MaxBookmarkRequests)
       \/ BeginBookmark(p, {"u1"}, MaxBookmarkRequests)
       \/ BookmarkLoad(p) \/ BookmarkSave(p)

BookmarkSpec == Init /\ [][BookmarkNext]_vars

\* UpdateProgress of the reading route, with its auto-complete.
UpdateStep(p, U, P, max) ==
  \/ BeginUpdate(p, U, P, max) \/ UpdateFind(p) \/ UpdateWrite(p) \/ UpdateShelf(p)
  \/ HelperFind(p) \/ HelperSave(p) \/ HelperShelf(p)

\* Two Start, UpdateProgress or Complete requests of one client in flight.
RaceNext ==
  \E p \in Procs :
    \/ LifecycleStep(p, {"u1"}, {"b1"}, MaxRaceRequests)
    \/ UpdateStep(p, {"u1"}, PageInputs, MaxRaceRequests)

RaceSpec == Init /\ [][RaceNext]_vars

\* The requests of the reading routes that name a session by its id.
OwnerStep(p, U, P, max) ==
  \/ BeginPause(p, U, max) \/ Pause(p)
  \/ BeginResume(p, U, max) \/ Resume(p)
  \/ UpdateStep(p, U, P, max)
  \/ BeginUpdateNote(p, U, P, max) \/ UpdateNoteSave(p)
  \/ BeginAddNote(p, U, max) \/ AddNoteFind(p) \/ AddNoteSave(p)

\* Two clients, each with a token of its own, one request at a time: u1
\* starts and completes sessions, and either client may name any session id
\* in its other requests.
OwnerNext ==
  \/ LifecycleStep(1, {"u1"}, {"b1"}, MaxOwnerRequests)
  \/ BeginComplete(1, {"u2"}, MaxOwnerRequests)
  \/ OwnerStep(1, Users, PageInputs, MaxOwnerRequests)

OwnerSpec == Init /\ [][OwnerNext]_vars

\* No handler reaches its catch block: every save and every write of the user
\* succeeds, and no request is answered 500.
WritesSucceed == \A p \in Procs : procs'[p].code # 500

\* One client, one request at a time: Start, Pause, Resume and Complete, in
\* the behaviours in which every write succeeds.
ShelfNext ==
  \/ LifecycleStep(1, {"u1"}, {"b1", "b3"}, MaxShelfRequests) /\ WritesSucceed
  \/ BeginPause(1, {"u1"}, MaxShelfRequests) \/ Pause(1)
  \/ BeginResume(1, {"u1"}, MaxShelfRequests) \/ Resume(1)

ShelfSpec == Init /\ [][ShelfNext]_vars

\* ================================================================ claims
KnownBook(s) == pageCount(s.book) # Absent

\* The handler of slot p answers in this step.
Responds(p) == procs[p].pc \notin {"idle", "done"} /\ procs'[p].pc = "done"

\* C1: in every reachable state at most one session with status active exists
\* per (user, book) pair.
C1_AtMostOneActive ==
  \A u \in Users, b \in Books : Cardinality(ActiveFor(u, b)) <= 1

\* C2: two Start calls for the same (user, book), however their store calls
\* interleave, leave exactly one session and both callers get that session's id.
C2_ConcurrentStartOneSession ==
  (/\ nreq = 2
   /\ \A p \in Procs : procs[p].pc = "done" /\ procs[p].op = "Start"
                       /\ procs[p].code \in {200, 201})
  => /\ Len(sessions) = 1
     /\ \A p \in Procs : procs[p].rid = 1

\* C3: a session whose status is completed or abandoned keeps that status in
\* every later step.
C3_TerminalIsFinal ==
  [][\A i \in SessionIds :
       sessions[i].status \in {"completed", "abandoned"}
         => sessions'[i].status = sessions[i].status]_vars

\* C4: Pause succeeds only from active and Resume only from paused; a Pause or
\* Resume from any other status fails and leaves the session records unchanged.
C4_Step(p) ==
  LET r == procs[p]
      s == sessions[r.sid]
      pausing == r.pc = "p1" \/ (r.pc = "m2" /\ r.arg = "pause")
      resuming == r.pc = "r1" \/ (r.pc = "m2" /\ r.arg = "resume")
  IN /\ pausing =>
          IF s.status = "active"
          THEN procs'[p].code = 200 /\ sessions'[r.sid].status = "paused"
          ELSE procs'[p].code \in {404, 500} /\ sessions' = sessions
     /\ resuming =>
          IF s.status = "paused"
          THEN procs'[p].code = 200 /\ sessions'[r.sid].status = "active"
          ELSE procs'[p].code \in {404, 500} /\ sessions' = sessions

C5_CompleteForcesEnd ==
  [][\A i \in SessionIds :
       (/\ procs[1].pc \in {"c2", "h2"}
        /\ KnownBook(sessions[i])
        /\ sessions[i].status # "completed"
        /\ sessions'[i].status = "completed")
       => /\ sessions'[i].progress = 100
          /\ sessions'[i].currentPage = pageCount(sessions[i].book)]_vars

\* C6: when an UpdateProgress on a book with known pageCount returns, the
\* session is completed if the resulting progress is >= 95 and active if it
\* is < 95.
C6_Step(p) ==
  LET r == procs[p]
  IN (r.op = "Update" /\ Responds(p) /\ procs'[p].code = 200)
     => /\ r.prog >= 95 => sessions'[r.sid].status = "completed"
        /\ r.prog < 95 => sessions'[r.sid].status = "active"

C6_AutoCompleteAtThreshold == [][C6_Step(1)]_vars

\* C6 witness: an UpdateProgress that computed progress 95 has returned and the
\* session (still on the page that gave 95) is completed.
C6_Witness ==
  /\ procs[1].pc = "done" /\ procs[1].op = "Update" /\ procs[1].code = 200
  /\ sessions[procs[1].sid].status = "completed"
  /\ sessions[procs[1].sid].currentPage = KnownPageCount - 1

\* C7: a Start for a pair with a completed session and no active session is
\* answered 400 and changes neither the sessions nor the user aggregate.
C7_Step(p) ==
  LET r == procs[p]
  IN (/\ r.op = "Start" /\ r.pc \notin {"idle", "done"}
      /\ ActiveFor(r.user, r.book) = {}
      /\ \E i \in SessionIds : /\ sessions[i].user = r.user
                               /\ sessions[i].book = r.book
                               /\ sessions[i].status = "completed")
     => /\ sessions' = sessions
        /\ users' = users
        /\ procs'[p].pc = "done" => procs'[p].code = 400

C7_StartAfterCompleted == [][C7_Step(1)]_vars

\* C7 witness: a Start was answered 400.
C7_Witness ==
  /\ procs[1].pc = "done" /\ procs[1].op = "Start" /\ procs[1].code = 400

\* p is x rounded to the nearest integer, halves up, where x = 100 * cp / pc.
IsRoundedPercent(p, cp, pc) ==
  /\ (2 * p - 1) * pc <= 200 * cp
  /\ 200 * cp < (2 * p + 1) * pc

\* C8: the progress an UpdateProgress stores is round(currentPage / pageCount
\* * 100) of the page it stores, and it is still that when the call returns
\* without auto-complete.
C8_Step(p) ==
  LET r == procs[p]
      wrote == \/ r.pc = "u2" /\ procs'[p].pc = "u3"
               \/ r.pc = "m2" /\ r.arg = "updateProgress" /\ procs'[p].code = 200
      kept == r.op = "Update" /\ Responds(p) /\ procs'[p].code = 200 /\ r.prog < 95
  IN (wrote \/ kept) =>
       LET s == sessions'[r.sid]
       IN pageCount(s.book) > 0
            => IsRoundedPercent(s.progress, s.currentPage, pageCount(s.book))

C8_ProgressIsRounded == [][C8_Step(1)]_vars

\* C8 witness: an UpdateProgress has stored a page whose percentage is not a
\* whole number.
C8_Witness ==
  /\ procs[1].pc = "u3"
  /\ sessions[procs[1].sid].currentPage = KnownPageCount \div 2
  /\ (100 * sessions[procs[1].sid].currentPage) % KnownPageCount # 0

\* C9: every session of a book with known pageCount has
\* startPage <= currentPage <= pageCount.
C9_PageWithinBook ==
  \A i \in SessionIds :
    KnownBook(sessions[i])
      => /\ sessions[i].startPage <= sessions[i].currentPage
         /\ sessions[i].currentPage <= pageCount(sessions[i].book)

\* C10: no step decreases the pagesRead of a session.
C10_PagesReadMonotone ==
  [][\A i \in SessionIds : sessions'[i].pagesRead >= sessions[i].pagesRead]_vars

\* C11: an UpdateProgress that submits, as an absolute currentPage, the page the
\* session already stores (the same page submitted again) adds nothing to
\* pagesRead.
C11_Step(p) ==
  LET r == procs[p]
  IN (/\ r.pc = "u2" /\ procs'[p].pc = "u3"
      /\ r.page # Absent /\ r.delta = Absent
      /\ sessions[r.sid].currentPage = r.newPage)
     => sessions'[r.sid].pagesRead = sessions[r.sid].pagesRead

C11_SamePageAddsNothing == [][C11_Step(1)]_vars

\* C11 witness: the second of two updates to the same page, a page beyond the
\* start page, has written; the pages of the first update are counted.
C11_Witness ==
  /\ procs[1].pc = "u3" /\ procs[1].page = KnownPageCount \div 2
  /\ procs[1].doc.currentPage = procs[1].newPage
  /\ sessions[procs[1].sid].startPage < procs[1].newPage
  /\ sessions[procs[1].sid].pagesRead = procs[1].newPage - sessions[procs[1].sid].startPage

\* The session after the update of request r is applied to session s on its own:
\* what updateReadingProgress computes and writes when it loads s.
C12_Apply(s, r) ==
  LET np == NewCurrentPage(s.currentPage, r.page, r.delta, pageCount(s.book))
  IN ApplyUpdate(s, np, Progress(np, pageCount(s.book)),
                 PagesReadInc(s.currentPage, np, r.delta), ReadingTimeInc(r.time))

\* C12: when two UpdateProgress calls of one session that loaded the same
\* session have both written (neither reaching auto-complete), the session's
\* totalReadingTime and pagesRead are those of applying the two calls one
\* after the other in their arrival order.
C12_ConcurrentUpdatesAdd ==
  \A p \in Procs, q \in Procs :
    (/\ procs[p].pc = "u3" /\ procs[q].pc = "u3"
     /\ procs[p].now < procs[q].now
     /\ procs[p].sid = procs[q].sid
     /\ procs[p].doc = procs[q].doc
     /\ procs[p].prog < CompletionThreshold
     /\ procs[q].prog < CompletionThreshold)
    => LET after == C12_Apply(C12_Apply(procs[p].doc, procs[p]), procs[q])
           s == sessions[procs[p].sid]
       IN /\ s.totalReadingTime = after.totalReadingTime
          /\ s.pagesRead = after.pagesRead

\* The calendar rule: the streak after an activity on day "day" of a user
\* whose streak is "streak" and whose last reading day is "last".
C13_Rule(streak, last, day) ==
  IF last = Absent THEN 1
  ELSE IF day - last = 1 THEN streak + 1
  ELSE IF day - last > 1 THEN 1
  ELSE streak

\* C13: every streak update (the helper of the reading controller on
\* stats.readingStreak, the method of the User model on stats.currentStreak)
\* stores the streak the calendar rule gives for the day of the activity, and
\* that day as lastReadingDate.
C13_Step(p) ==
  LET r == procs[p]
      u == users[r.user]
      v == users'[r.user]
  IN /\ (r.pc = "k2" /\ Responds(p))
          => /\ v.readingStreak = C13_Rule(u.readingStreak, u.lastReadingDate, r.day)
             /\ v.lastReadingDate = r.day
     /\ (r.pc = "w2" /\ Responds(p))
          => /\ v.currentStreak = C13_Rule(u.currentStreak, u.lastReadingDate, r.day)
             /\ v.lastReadingDate = r.day

C13_StreakFollowsCalendar == [][C13_Step(1)]_vars

\* C13 witness: completions on day 0 and on day 1 have given streak 2.
C13_Witness ==
  /\ procs[1].pc = "done" /\ procs[1].op = "Complete" /\ procs[1].code = 200
  /\ today = 1
  /\ users["u1"].readingStreak = 2
  /\ users["u1"].lastReadingDate = 1

\* The streak state of a user.
C14_StreakState(u) ==
  <<u.readingStreak, u.currentStreak, u.longestStreak, u.lastReadingDate>>

C15_LongestIsMax ==
  [][LET r == procs[1]
         u == users[r.user]
         v == users'[r.user]
     IN /\ (r.pc = "k2" /\ Responds(1))
             => v.longestStreak = Max(u.longestStreak, v.readingStreak)
        /\ (r.pc = "w2" /\ Responds(1))
             => v.longestStreak = Max(u.longestStreak, v.currentStreak)
        /\ \A w \in Users : users'[w].longestStreak >= users[w].longestStreak]_vars

\* The number of entries of a bookshelf list that refer to book b.
C16_Entries(seq, b) == Cardinality({i \in 1..Len(seq) : seq[i].book = b})

\* C16: in every state reached by Start and Complete requests, currentlyReading
\* and finishedBooks of every user hold at most one entry per book.
C16_ShelfListsAreSets ==
  \A u \in Users, b \in Books :
    /\ C16_Entries(users[u].currentlyReading, b) <= 1
    /\ C16_Entries(users[u].finishedBooks, b) <= 1

\* C17: when the aggregate write of a completion (explicit Complete, or the
\* helper of auto-complete) succeeds, and still when that request is answered,
\* the session's book is not in the user's currentlyReading and is in
\* finishedBooks.
C17_Step(p) ==
  LET r == procs[p]
      wrote == r.pc \in {"c3", "h3"} /\ procs'[p].pc = "k1"
      answered == r.pc = "k2" /\ Responds(p)
  IN (wrote \/ answered)
       => /\ ~HasBook(users'[r.user].currentlyReading, r.doc.book)
          /\ HasBook(users'[r.user].finishedBooks, r.doc.book)

C17_CompletionMovesBook == [][C17_Step(1)]_vars

\* C17 witness: an UpdateProgress that auto-completed a session is answered;
\* the book, which Start had put on currentlyReading, is on finishedBooks only.
C17_Witness ==
  /\ procs[1].pc = "done" /\ procs[1].op = "Update" /\ procs[1].code = 200
  /\ sessions[procs[1].sid].status = "completed"
  /\ users["u1"].currentlyReading = <<>>
  /\ HasBook(users["u1"].finishedBooks, sessions[procs[1].sid].book)

\* C18: the aggregate write of every completion, explicit or auto-complete,
\* adds the session's own final values to the user's stats: 1 to booksRead, the
\* session's pagesRead to pagesRead, the session's totalReadingTime to
\* totalReadingTime.
C18_Step(p) ==
  LET r == procs[p]
      u == users[r.user]
      v == users'[r.user]
  IN (r.pc \in {"c3", "h3"} /\ procs'[p].pc = "k1")
       => /\ v.booksRead = u.booksRead + 1
          /\ v.pagesRead = u.pagesRead + r.doc.pagesRead
          /\ v.totalReadingTime = u.totalReadingTime + r.doc.totalReadingTime

C18_CompletionCountsOwnValues == [][C18_Step(1)]_vars

\* The completed sessions of user u.
C19_CompletedOf(u) ==
  {i \in SessionIds : sessions[i].user = u /\ sessions[i].status = "completed"}

\* C19: Complete requests never double count, however two of them for one
\* session interleave: stats.booksRead and the number of finishedBooks entries
\* of a user never exceed the number of that user's completed sessions.
C19_CompleteCountsOnce ==
  \A u \in Users :
    /\ users[u].booksRead <= Cardinality(C19_CompletedOf(u))
    /\ Len(users[u].finishedBooks) <= Cardinality(C19_CompletedOf(u))

\* C20: when a read of either aggregate (current sessions, history, statistics
\* or bookshelf) is answered, no book of a completed session of the reader is
\* listed in the reader's currentlyReading: a Complete whose aggregate write
\* failed is repaired by the read.
C20_Step(p) ==
  LET r == procs[p]
  IN (r.pc = "g1" /\ Responds(p))
       => \A i \in C19_CompletedOf(r.user) :
            ~HasBook(users'[r.user].currentlyReading, sessions'[i].book)

C20_ReadRepairsShelf == [][C20_Step(1)]_vars

\* C21: Abandon moves an active or paused session to abandoned; Abandon on a
\* completed or abandoned session fails and leaves the sessions unchanged; a
\* Resume on an abandoned session fails and leaves the sessions unchanged.
C21_Step(p) ==
  LET r == procs[p]
      s == sessions[r.sid]
      resuming == r.pc = "r1" \/ (r.pc = "m2" /\ r.arg = "resume")
  IN /\ (r.pc = "m2" /\ r.arg = "abandon") =>
          IF s.status \in {"active", "paused"}
          THEN procs'[p].code = 200 /\ sessions'[r.sid].status = "abandoned"
          ELSE procs'[p].code # 200 /\ sessions' = sessions
     /\ (resuming /\ s.status = "abandoned") =>
          procs'[p].code # 200 /\ sessions' = sessions

C21_AbandonIsTerminal == [][C21_Step(1)]_vars

\* C22: a request whose target state is already reached (Complete on the user's
\* completed session, Pause on the user's paused session) is answered with
\* success and changes neither the sessions nor the users.
C22_Step(p) ==
  LET r == procs[p]
      s == sessions[r.sid]
      again == \/ r.pc = "c1" /\ s.status = "completed"
               \/ r.pc = "p1" /\ s.status = "paused"
  IN (again /\ s.user = r.user)
       => /\ procs'[p].pc = "done" /\ procs'[p].code = 200
          /\ sessions' = sessions
          /\ users' = users

C22_RedeliveryIsNoOp == [][C22_Step(1)]_vars

\* The fields of a session that Pause and Resume must leave alone.
C23_Frame(s) == <<s.currentPage, s.progress, s.pagesRead, s.totalReadingTime>>

\* C23: a Pause or a Resume (the routes, and methods.pause / methods.resume)
\* leaves every user aggregate unchanged and leaves currentPage, progress,
\* pagesRead and totalReadingTime of every session unchanged.
C23_Step(p) ==
  LET r == procs[p]
  IN (\/ r.pc \in {"p1", "r1"}
      \/ r.pc = "m2" /\ r.arg \in {"pause", "resume"})
       => /\ users' = users
          /\ Len(sessions') = Len(sessions)
          /\ \A i \in SessionIds : C23_Frame(sessions'[i]) = C23_Frame(sessions[i])

C23_PauseResumeFrame == [][C23_Step(1)]_vars

\* C23 witness: a Pause was answered 200 on a session that has progress, pages
\* read and an entry on currentlyReading.
C23_Witness ==
  /\ procs[1].pc = "done" /\ procs[1].op = "Pause" /\ procs[1].code = 200
  /\ sessions[procs[1].sid].status = "paused"
  /\ sessions[procs[1].sid].progress > 0
  /\ sessions[procs[1].sid].pagesRead > 0
  /\ HasBook(users["u1"].currentlyReading, sessions[procs[1].sid].book)

C25_Step(p) ==
  LET r == procs[p]
      s == sessions[r.sid]
  IN (/\ r.op = "Update" /\ Responds(p)
      /\ s.user = r.user /\ s.status = "active"
      /\ ~KnownBook(s)
      /\ r.page # Absent)
     => /\ procs'[p].code = 200
        /\ sessions'[r.sid].currentPage = r.page
        /\ sessions'[r.sid].progress = 0
        /\ sessions'[r.sid].status = "active"

C25_NoPageCountStillUpdates == [][C25_Step(1)]_vars

\* C26: every UpdateProgress that writes (the route, with currentPage or with
\* pagesRead, and methods.updateProgress) adds to the session's pagesRead
\* exactly max(0, new currentPage - previous currentPage), the new currentPage
\* being the target page after clamping to the book's pageCount.
C26_Step(p) ==
  LET r == procs[p]
      s == sessions[r.sid]
      t == sessions'[r.sid]
      wrote == \/ r.pc = "u2" /\ procs'[p].pc = "u3"
               \/ r.pc = "m2" /\ r.arg = "updateProgress" /\ procs'[p].code = 200
  IN wrote => t.pagesRead = s.pagesRead + Max(0, t.currentPage - s.currentPage)

C26_PagesReadByPageChange == [][C26_Step(1)]_vars

\* C27: when a reading activity is answered with success (an UpdateProgress,
\* whether or not it completes the session, or a Complete), the user's
\* lastReadingDate is today and the user's streak is at least 1.
C27_Step(p) ==
  LET r == procs[p]
  IN (/\ r.op \in {"Update", "Complete"}
      /\ Responds(p) /\ procs'[p].code = 200)
     => /\ users'[r.user].lastReadingDate = today
        /\ users'[r.user].readingStreak >= 1

C27_ActivityUpdatesStreak == [][C27_Step(1)]_vars

\* C28: when an UpdateProgress (the route, or methods.updateProgress) is
\* answered with success, the session's readingSpeed is its pagesRead divided
\* by its totalReadingTime in hours when totalReadingTime > 0, and 0 otherwise.
C28_Step(p) ==
  LET r == procs[p]
      t == sessions'[r.sid]
  IN (/\ r.op = "Update" \/ (r.op = "Method" /\ r.arg = "updateProgress")
      /\ Responds(p) /\ procs'[p].code = 200)
     => t.readingSpeed = IF t.totalReadingTime > 0
                         THEN (t.pagesRead * 3600) \div t.totalReadingTime
                         ELSE 0

C28_SpeedFollowsUpdate == [][C28_Step(1)]_vars

\* The bookmarks of the list that are set on the page.
C29_OnPage(seq, page) == {i \in 1..Len(seq) : seq[i].page = page}

\* C29: after every step no two bookmarks of a session share a page; an
\* addBookmark leaves exactly one bookmark on its page, the new one, and keeps
\* the bookmarks of the other pages; a removeBookmark leaves none on its page.
C29_Step(p) ==
  LET r == procs[p]
      old == sessions[r.sid].bookmarks
      new == sessions'[r.sid].bookmarks
  IN /\ \A i \in 1..Len(sessions'), pg \in BookmarkPages :
          Cardinality(C29_OnPage(sessions'[i].bookmarks, pg)) <= 1
     /\ (r.pc = "f2" /\ r.arg = "addBookmark")
          => /\ \E i \in 1..Len(new) : new[i] = [page |-> r.page, stamp |-> r.now]
             /\ RemoveBookmark(new, r.page) = RemoveBookmark(old, r.page)
     /\ (r.pc = "f2" /\ r.arg = "removeBookmark")
          => /\ C29_OnPage(new, r.page) = {}
             /\ new = RemoveBookmark(old, r.page)

C29_OneBookmarkPerPage == [][\A p \in Procs : C29_Step(p)]_vars

\* C29 witness: two addBookmark calls on the same page, the only calls after
\* the Start, have been answered and the session holds one bookmark.
C29_Witness ==
  /\ nreq = 3
  /\ \A p \in Procs : /\ procs[p].pc = "done" /\ procs[p].op = "Bookmark"
                      /\ procs[p].arg = "addBookmark" /\ procs[p].code = 200
                      /\ procs[p].rid = 2
  /\ Len(sessions[1].bookmarks) = 1

\* C30: however UpdateProgress and Complete requests on one session
\* interleave, every completed session has progress 100, and no step changes
\* currentPage or progress of a session that is completed.
C30_CompletedStaysAtEnd ==
  [][\A i \in SessionIds :
       /\ sessions'[i].status = "completed" => sessions'[i].progress = 100
       /\ sessions[i].status = "completed"
            => /\ sessions'[i].currentPage = sessions[i].currentPage
               /\ sessions'[i].progress = sessions[i].progress]_vars

\* C31: a session is only modified on behalf of its owner.  A step of an
\* UpdateProgress, Pause, Resume, Complete or AddNote request whose user is not
\* the user of the session it names answers 404 and changes no session and no
\* user; and whatever the requests in flight, a step that changes a session
\* or the aggregates of a user is a step of a request of that user.
C31_Ops == {"Update", "Pause", "Resume", "Complete", "AddNote"}

C31_Acts(p) == ~Free(p) /\ procs'[p] # procs[p]

C31_Step(p) ==
  LET r == procs[p]
  IN (C31_Acts(p) /\ r.op \in C31_Ops /\ sessions[r.sid].user # r.user)
       => /\ procs'[p].pc = "done"
          /\ procs'[p].code = 404
          /\ sessions' = sessions
          /\ users' = users

C31_Frame ==
  /\ \A i \in SessionIds :
       sessions'[i] # sessions[i]
         => \E p \in Procs : C31_Acts(p) /\ procs[p].user = sessions[i].user
  /\ \A u \in Users :
       users'[u] # users[u]
         => \E p \in Procs : C31_Acts(p) /\ procs[p].user = u

C31_OnlyOwnerModifies == [][C31_Frame /\ \A p \in Procs : C31_Step(p)]_vars

\* A request to add a note to a session its owner has paused was answered 404
\* (the handler has no condition on the status, so the request was not the
\* owner's), and the session has no note.
C31_Witness ==
  /\ procs[1].pc = "done" /\ procs[1].op = "AddNote" /\ procs[1].code = 404
  /\ sessions[procs[1].sid].user = "u1"
  /\ sessions[procs[1].sid].status = "paused"
  /\ sessions[procs[1].sid].notes = <<>>
  /\ users["u2"] = NewUser

\* C32: when every request has been answered and every write has succeeded,
\* the book of every active session is listed in currentlyReading of the
\* session's user.
C32_ActiveIsOnShelf ==
  (\A p \in Procs : Free(p))
    => \A i \in SessionIds :
         sessions[i].status = "active"
           => HasBook(users[sessions[i].user].currentlyReading, sessions[i].book)

====
